---- MODULE Spec2Model ----
(***************************************************************************)
(* Model of the GAEVIC eviction-case system: the remote submit path        *)
(* (backend/github_submitter.py), the local submit path and the case       *)
(* status handlers (main.py) and the dashboard update handlers             *)
(* (dashboard_api.py).  Every storage read and write of a handler is one   *)
(* step, so that handlers running in different server processes over the   *)
(* same files, or against the same remote repository, interleave.          *)
(***************************************************************************)
EXTENDS Integers, Sequences, FiniteSets, TLC

VARIABLES
    now,        \* wall clock, in ticks: the last instant datetime.now() returned
    calls,      \* number of handler calls started so far
    faults,     \* number of storage faults (network, disk) so far
    remote,     \* remote repository: path -> content, DOMAIN = existing paths
    files,      \* local disk: path -> content, DOMAIN = existing files
    dirs,       \* local disk: case directories that exist
    db,         \* local data/cases.json: <<>> when the file does not exist,
                \* else <<list of case records>>
    pc,         \* per handler thread: position in the handler it runs
    req,        \* per handler thread: the request it serves
    loc,        \* per handler thread: the handler's local variables
    resp,       \* per handler thread: response of its last completed call
    last        \* observation: the last call that returned, if it succeeded,
                \* with the storage it left

vars == <<now, calls, faults, remote, files, dirs, db, pc, req, loc, resp, last>>

-----------------------------------------------------------------------------
(* Bounds of the model *)

MaxTime == 1
MaxCalls == 2
MaxFaults == 1

\* the handler threads that serve requests
Procs == {1, 2}

-----------------------------------------------------------------------------
(* Values *)

\* Python's None where a string is expected
None == "None"

\* no integer value (a response without files_created)
NoInt == 0 - 1

\* the year of the modelled run, datetime.now().year
YearStr == "2024"

\* the resolution at which the clock is observed: two reads within the same
\* second return the same instant
TicksPerSecond == 1

\* int(datetime.now().timestamp())
Timestamp(t) == t \div TicksPerSecond

\* datetime.now().date().isoformat(): the modelled run lies within one day
Today(t) == YearStr \o "-01-01"

\* datetime.now().isoformat()
IsoFormat(t) ==
    Today(t) \o "T00:00:0" \o ToString(Timestamp(t)) \o "." \o ToString(t % TicksPerSecond)

\* Python's truth value of an optional string
Truthy(x) == x # None /\ x # ""

\* base64.b64decode(s) of the modelled inputs; characters outside the
\* alphabet are discarded, wrong padding raises binascii.Error
B64Valid(s) == s \in {"QQ==", "Q Q==", "Qg=="}

B64Decode(s) ==
    CASE s = "QQ==" -> "A"
      [] s = "Q Q==" -> "A"
      [] s = "Qg==" -> "B"

\* base64.b64encode(b).decode('utf-8')
B64Encode(b) ==
    CASE b = "A" -> "QQ=="
      [] b = "B" -> "Qg=="

-----------------------------------------------------------------------------
(* Requests *)

\* case_data of a remote submission (nested party fields); a key the client
\* did not send is None
CaseA == [landlord |-> "A", tenant |-> "B", property |-> "123 Main St", status |-> None]
CaseB == [landlord |-> "C", tenant |-> "D", property |-> "9 Oak Ave", status |-> "approved"]

RemoteCases == {CaseA, CaseB}

\* a document of a submission; documents is a dict in insertion order, its
\* keys unique
Doc(t, c) == [doc_type |-> t, b64 |-> c]

\* the body of POST /api/submit-to-github
RemoteRequest(id, c, d) ==
    [op |-> "submit", case_id |-> id, case_data |-> c, documents |-> d]

\* the submissions: two cases without an id, two cases under the same
\* supplied id, one of them with a document that does not decode
RemoteRequests ==
    { RemoteRequest("", CaseA, << Doc("demand_notice", "QQ==") >>),
      RemoteRequest("", CaseB, << Doc("demand_notice", "QQ==") >>),
      RemoteRequest("X1", CaseA, << Doc("demand_notice", "QQ==") >>),
      RemoteRequest("X1", CaseB, << Doc("affidavit", "Q"), Doc("lease", "Qg==") >>) }

\* case_data of a local submission: a flat dict, stored as the case record;
\* a key the client did not send is None (NoInt for the amount)
LocalCase(landlord, tenant) ==
    [case_id |-> None, landlord_name |-> landlord, tenant_name |-> tenant,
     submitted_at |-> None, status |-> None, signature_data |-> None,
     updated_at |-> None, admin_notes |-> None,
     amount_owed |-> NoInt,
     official_case_number |-> None, filing_date |-> None,
     assigned_by |-> None, assigned_at |-> None,
     clerk_notes |-> None, rejection_reason |-> None]

LocalA == [LocalCase("A", "B") EXCEPT !.amount_owed = 1850]
LocalB == [LocalCase("C", "D") EXCEPT !.amount_owed = 1200]

\* a client that sends lifecycle keys along with the party fields
LocalT ==
    [LocalCase("E", "F") EXCEPT !.case_id = "X1", !.status = "approved",
                                !.submitted_at = "1999", !.official_case_number = "CV-0"]

\* the body of POST /api/submit-case
LocalRequest(c, sig, d) ==
    [op |-> "submit", case_data |-> c, signature_data |-> sig, documents |-> d]

LocalRequests ==
    { LocalRequest(LocalA, None, << Doc("demand_notice", "QQ==") >>),
      LocalRequest(LocalT, "sig", << Doc("demand_notice", "QQ==") >>),
      LocalRequest(LocalB, None, << Doc("affidavit", "Q"), Doc("lease", "Qg==") >>) }

\* the first 8 characters of str(uuid.uuid4())
RandomSuffixes == {"0f8e2a6c", "b3d9c1e7"}

-----------------------------------------------------------------------------
(* Remote repository: the contents API *)

INDEX_PATH == "cases/index.json"

\* the version token of the object stored at path: the blob sha, fixed by the
\* content
ShaOf(path, content) == (path :> content)

NoSha == <<>>

Exists(store, path) == path \in DOMAIN store

Put(store, path, content) == (path :> content) @@ store

\* PUT .../contents/<path>: accepted when the token names the stored version,
\* or when none is given and the object does not exist
PutAccepted(store, path, sha) ==
    IF Exists(store, path) THEN sha = ShaOf(path, store[path]) ELSE sha = NoSha

-----------------------------------------------------------------------------
(* Handler threads and the clock *)

\* no case record held
NoCase == [case_id |-> None]

\* the local variables of a handler, before it starts
NoLoc ==
    [case_id |-> None, stage |-> "none", i |-> 0, path |-> None,
     case_data |-> NoCase, content |-> None, sha |-> NoSha, index_data |-> <<>>,
     cases |-> <<>>, solo |-> FALSE,
     attempted |-> 0, written |-> 0, indexed |-> FALSE,
     got |-> None, found |-> FALSE]

NoReq == [kind |-> "none", op |-> "none"]

\* an HTTP response of a submit endpoint
Response(code, success, case_id, files_created, detail) ==
    [code |-> code, success |-> success, case_id |-> case_id,
     files_created |-> files_created, detail |-> detail]

NoResp == Response(0, FALSE, None, NoInt, None)

\* what remains of a handler's local variables once it has returned: the record
\* of what the call did
Finished(l) ==
    [NoLoc EXCEPT !.case_id = l.case_id, !.stage = l.stage, !.i = l.i,
                  !.attempted = l.attempted, !.written = l.written,
                  !.indexed = l.indexed]

NoLast == [req |-> NoReq]

\* the handler of p returns response r, its local variables being l
Return(p, l, r) ==
    /\ pc' = [pc EXCEPT ![p] = "idle"]
    /\ loc' = [loc EXCEPT ![p] = Finished(l)]
    /\ resp' = [resp EXCEPT ![p] = r]
    /\ last' = IF r.success
               THEN [req |-> req[p], remote |-> remote', files |-> files', db |-> db']
               ELSE NoLast

\* the handler of p starts with local variables l; it runs alone as long as no
\* other handler is running or starts
Begin(p, l) ==
    loc' = [q \in Procs |->
                IF q = p
                THEN [l EXCEPT !.solo = \A o \in Procs \ {p} : pc[o] = "idle"]
                ELSE [loc[q] EXCEPT !.solo = FALSE]]

\* a request is served by the first free handler thread
FirstIdle(p) ==
    /\ pc[p] = "idle"
    /\ \A q \in Procs : (pc[q] = "idle") => ~(q < p)

\* the remote submit service and the local case service are separate
\* applications over disjoint stores; a run follows the handler threads of one
\* of them
Serves(kind) == \A q \in Procs : req[q].kind \in {"none", kind}

\* a storage call may fail (network, disk) while the fault budget lasts
MayFail == faults < MaxFaults

\* the instants datetime.now() can return: not before the last one read
Instants == now..MaxTime

\* datetime.now() returns t
Now(t) == now' = t

-----------------------------------------------------------------------------
(* Remote submit: GitHubCaseSubmitter.submit_case behind submit_case_to_github *)

\* the identifier allocated when none is supplied
RemoteAllocate(t) == "HOU-" \o YearStr \o "-" \o ToString(Timestamp(t))

\* case_id = case_data.get("case_id"); if not case_id: allocate
RemoteResolveCaseId(r, t) ==
    IF r.case_id # "" THEN r.case_id ELSE RemoteAllocate(t)

CaseDir(case_id) == "cases/" \o case_id

CaseDataPath(case_id) == CaseDir(case_id) \o "/case_data.json"

GET_DOC_FILENAMES ==
    [demand_notice |-> "7-Day_Demand_Notice.pdf",
     affidavit |-> "Dispossessory_Affidavit.pdf",
     summons |-> "Summons.pdf",
     scra_form |-> "SCRA_Verification.pdf"]

get_doc_filename(doc_type) ==
    IF doc_type \in DOMAIN GET_DOC_FILENAMES
    THEN GET_DOC_FILENAMES[doc_type]
    ELSE doc_type \o ".pdf"

RemoteDocPath(case_id, doc_type) ==
    CaseDir(case_id) \o "/" \o get_doc_filename(doc_type)

\* the index upsert placed before the loop over the documents
RemoteStageAfter_IndexFirst(stage) ==
    CASE stage = "case" -> "index"
      [] stage = "index" -> "docs"
      [] stage = "docs" -> "return"

\* the order of the three parts of submit_case
RemoteStageAfter(stage) ==
    CASE stage = "case" -> "docs"
      [] stage = "docs" -> "index"
      [] stage = "index" -> "return"

\* the part entered after `stage`: the loop over the documents is left when
\* no document remains
RemoteNextStage(stage, i, n) ==
    LET next == IF stage = "docs" THEN "docs" ELSE RemoteStageAfter(stage)
    IN  IF next = "docs" /\ i >= n THEN RemoteStageAfter("docs") ELSE next

\* the entry update_case_index builds for the case
NewIndexEntry(case_id, case_data, t) ==
    [case_id |-> case_id, landlord |-> case_data.landlord,
     tenant |-> case_data.tenant, property |-> case_data.property,
     submitted |-> IsoFormat(t), status |-> "submitted"]

\* index_data["cases"].append(new_case)
IndexUpsert(index_data, new_case) == Append(index_data, new_case)

\* a result that counts the documents only
RemoteSuccess_DocumentsOnly(case_id, documents) ==
    Response(200, TRUE, case_id, Len(documents), None)

\* the dict submit_case returns on success, as the endpoint passes it on
RemoteSuccess(case_id, documents) ==
    Response(200, TRUE, case_id, Len(documents) + 1, None)

\* submit_case returns {"success": False, "error", "case_id"}; the endpoint
\* turns it into HTTPException(500, detail=error), caught and re-raised
RemoteFailure(case_id, error) ==
    Response(500, FALSE, None, NoInt, "Submission failed: " \o error)

\* what a rejected or failed PUT does to the call: raise_for_status raises
RemoteOnPutError(p, l) == Return(p, l, RemoteFailure(l.case_id, "HTTPError"))

RemoteStart(p) ==
    /\ FirstIdle(p)
    /\ Serves("remote")
    /\ calls < MaxCalls
    /\ UNCHANGED <<faults, remote, files, dirs, db, resp, last>>
    /\ \E r \in RemoteRequests, t \in Instants :
        /\ Now(t)
        /\ req' = [req EXCEPT ![p] = [kind |-> "remote"] @@ r]
        /\ Begin(p, [NoLoc EXCEPT !.case_id = RemoteResolveCaseId(r, t),
                                  !.stage = "case",
                                  !.path = CaseDataPath(RemoteResolveCaseId(r, t)),
                                  !.case_data = r.case_data])
    /\ calls' = calls + 1
    /\ pc' = [pc EXCEPT ![p] = "r_get"]

\* a create_file that never takes the sha from the response
RemoteGet_NoToken(p) ==
    /\ pc[p] = "r_get"
    /\ UNCHANGED <<now, calls, faults, remote, files, dirs, db, req, resp, last>>
    /\ loc' = [loc EXCEPT ![p].sha = NoSha,
                          ![p].got = loc[p].path,
                          ![p].found = Exists(remote, loc[p].path)]
    /\ pc' = [pc EXCEPT ![p] = "r_put"]

\* create_file: requests.get(url) and the sha of the existing file; got and
\* found record the path asked for and whether the answer was 200
RemoteGet(p) ==
    /\ pc[p] = "r_get"
    /\ UNCHANGED <<now, calls, faults, remote, files, dirs, db, req, resp, last>>
    /\ loc' = [loc EXCEPT ![p].sha =
                                IF Exists(remote, loc[p].path)
                                THEN ShaOf(loc[p].path, remote[loc[p].path])
                                ELSE NoSha,
                          ![p].got = loc[p].path,
                          ![p].found = Exists(remote, loc[p].path)]
    /\ pc' = [pc EXCEPT ![p] = "r_put"]

\* submit_case goes on with the part `stage`
RemoteEnter(p, l, stage) ==
    LET docs == req[p].documents IN
    CASE stage = "docs" /\ B64Valid(docs[l.i + 1].b64) ->
            /\ loc' = [loc EXCEPT ![p] =
                    [l EXCEPT !.stage = "docs", !.i = l.i + 1,
                              !.attempted = l.attempted + 1,
                              !.path = RemoteDocPath(l.case_id, docs[l.i + 1].doc_type),
                              !.content = B64Encode(B64Decode(docs[l.i + 1].b64))]]
            /\ pc' = [pc EXCEPT ![p] = "r_get"]
            /\ UNCHANGED <<resp, last>>
      [] stage = "docs" /\ ~B64Valid(docs[l.i + 1].b64) ->
            Return(p, [l EXCEPT !.stage = "docs", !.i = l.i + 1,
                                !.attempted = l.attempted + 1],
                   RemoteFailure(l.case_id, "binascii.Error"))
      [] stage = "index" ->
            /\ loc' = [loc EXCEPT ![p] = [l EXCEPT !.stage = "index", !.path = INDEX_PATH]]
            /\ pc' = [pc EXCEPT ![p] = "r_idx_get"]
            /\ UNCHANGED <<resp, last>>
      [] stage = "return" ->
            Return(p, [l EXCEPT !.stage = "return"], RemoteSuccess(l.case_id, docs))

\* the content argument of the create_file call in progress
RemoteBody(l) == IF l.stage = "case" THEN l.case_data ELSE l.content

\* create_file: requests.put(url) and raise_for_status
RemotePut(p) ==
    /\ pc[p] = "r_put"
    /\ UNCHANGED <<now, calls, faults, files, dirs, db, req>>
    /\ IF PutAccepted(remote, loc[p].path, loc[p].sha)
       THEN /\ remote' = Put(remote, loc[p].path, RemoteBody(loc[p]))
            /\ LET l == [loc[p] EXCEPT !.written = loc[p].written + 1]
               IN  RemoteEnter(p, l, RemoteNextStage(l.stage, l.i, Len(req[p].documents)))
       ELSE /\ UNCHANGED remote
            /\ RemoteOnPutError(p, loc[p])

\* a request to the remote API fails (connection error, timeout, 5xx on PUT)
RemoteFault(p) ==
    /\ pc[p] \in {"r_get", "r_put", "r_idx_get", "r_idx_put"}
    /\ UNCHANGED <<now, calls, remote, files, dirs, db, req>>
    /\ MayFail
    /\ faults' = faults + 1
    /\ Return(p, loc[p], RemoteFailure(loc[p].case_id, "RequestException"))

\* update_case_index: GET of the index, then the new entry is appended
RemoteIndexGet(p) ==
    /\ pc[p] = "r_idx_get"
    /\ UNCHANGED <<calls, faults, remote, files, dirs, db, req, resp, last>>
    /\ \E t \in Instants :
        /\ Now(t)
        /\ LET found == Exists(remote, INDEX_PATH)
               index_data == IF found THEN remote[INDEX_PATH] ELSE <<>>
               new_case == NewIndexEntry(loc[p].case_id, req[p].case_data, t)
           IN  loc' = [loc EXCEPT ![p].sha = IF found THEN ShaOf(INDEX_PATH, remote[INDEX_PATH])
                                             ELSE NoSha,
                                  ![p].got = INDEX_PATH,
                                  ![p].found = found,
                                  ![p].index_data = IndexUpsert(index_data, new_case)]
    /\ pc' = [pc EXCEPT ![p] = "r_idx_put"]

\* update_case_index: PUT of the index with the sha read
RemoteIndexPut(p) ==
    /\ pc[p] = "r_idx_put"
    /\ UNCHANGED <<now, calls, faults, files, dirs, db, req>>
    /\ IF PutAccepted(remote, INDEX_PATH, loc[p].sha)
       THEN /\ remote' = Put(remote, INDEX_PATH, loc[p].index_data)
            /\ LET l == [loc[p] EXCEPT !.indexed = TRUE]
               IN  RemoteEnter(p, l, RemoteNextStage("index", l.i, Len(req[p].documents)))
       ELSE /\ UNCHANGED remote
            /\ RemoteOnPutError(p, loc[p])

-----------------------------------------------------------------------------
(* Local submit: submit_case of main.py *)

\* case_id = f"HOU-{year}-{timestamp}-{random_num}"
LocalAllocate(t, random_num) ==
    "HOU-" \o YearStr \o "-" \o ToString(Timestamp(t)) \o "-" \o random_num

\* the identifier of a local submission: always a new one
LocalResolveCaseId(r, t, random_num) == LocalAllocate(t, random_num)

\* the keys submit_case sets on the submitted dict
PrepareCaseData(r, case_id, t) ==
    [r.case_data EXCEPT !.case_id = case_id,
                        !.submitted_at = IsoFormat(t),
                        !.status = "submitted",
                        !.signature_data = r.signature_data]

LocalDocPath(case_id, doc_type) == CaseDir(case_id) \o "/" \o doc_type \o ".pdf"

\* the order of the three parts of submit_case
LocalStageAfter(stage) ==
    CASE stage = "case" -> "docs"
      [] stage = "docs" -> "index"
      [] stage = "index" -> "return"

LocalNextStage(stage, i, n) ==
    LET next == IF stage = "docs" THEN "docs" ELSE LocalStageAfter(stage)
    IN  IF next = "docs" /\ i >= n THEN LocalStageAfter("docs") ELSE next

\* a lookup that falls back on the first entry when case_id has none
IndexOfCase_OrFirst(cases, case_id) ==
    IF \E k \in 1..Len(cases) : cases[k].case_id = case_id
    THEN CHOOSE k \in 1..Len(cases) : cases[k].case_id = case_id
    ELSE IF Len(cases) > 0 THEN 1 ELSE 0

\* the position of case_id in the list, 0 when it has none
IndexOfCase(cases, case_id) ==
    IF \E k \in 1..Len(cases) : cases[k].case_id = case_id
    THEN CHOOSE k \in 1..Len(cases) :
            /\ cases[k].case_id = case_id
            /\ \A j \in 1..(k - 1) : cases[j].case_id # case_id
    ELSE 0

\* update_case_database: replace the entry of the case, or append it
DatabaseUpsert(cases, case_data) ==
    IF IndexOfCase(cases, case_data.case_id) # 0
    THEN [cases EXCEPT ![IndexOfCase(cases, case_data.case_id)] = case_data]
    ELSE Append(cases, case_data)

\* json.load of data/cases.json, or the empty list when there is no file
LoadCases == IF db = <<>> THEN <<>> ELSE db[1]

LocalSuccess(case_id) == Response(200, TRUE, case_id, NoInt, None)

\* except Exception: HTTPException(500, "Submission failed: ...")
LocalFailure(case_id, error) ==
    Response(500, FALSE, None, NoInt, "Submission failed: " \o error)

LocalPc(stage) ==
    CASE stage = "docs" -> "l_doc"
      [] stage = "index" -> "l_db_read"

\* submit_case goes on with the part `stage`
LocalEnter(p, l, stage) ==
    IF stage = "return"
    THEN Return(p, [l EXCEPT !.stage = stage], LocalSuccess(l.case_id))
    ELSE /\ loc' = [loc EXCEPT ![p] = [l EXCEPT !.stage = stage]]
         /\ pc' = [pc EXCEPT ![p] = LocalPc(stage)]
         /\ UNCHANGED <<resp, last>>

LocalStart(p) ==
    /\ FirstIdle(p)
    /\ Serves("local")
    /\ calls < MaxCalls
    /\ UNCHANGED <<faults, remote, files, dirs, db, resp, last>>
    /\ \E r \in LocalRequests, t \in Instants, random_num \in RandomSuffixes :
        /\ Now(t)
        /\ req' = [req EXCEPT ![p] = [kind |-> "local"] @@ r]
        /\ LET case_id == LocalResolveCaseId(r, t, random_num)
           IN  Begin(p, [NoLoc EXCEPT !.case_id = case_id,
                                      !.stage = "case",
                                      !.path = CaseDataPath(case_id),
                                      !.case_data = PrepareCaseData(r, case_id, t)])
    /\ calls' = calls + 1
    /\ pc' = [pc EXCEPT ![p] = "l_case"]

\* a submit_case that makes the directory but writes no case_data.json
LocalWriteCase_NoRecord(p) ==
    /\ pc[p] = "l_case"
    /\ UNCHANGED <<now, calls, faults, remote, files, db, req>>
    /\ dirs' = dirs \cup {loc[p].case_id}
    /\ LocalEnter(p, loc[p], LocalNextStage("case", loc[p].i, Len(req[p].documents)))

\* case_dir.mkdir(exist_ok=True) and json.dump to case_data.json
LocalWriteCase(p) ==
    /\ pc[p] = "l_case"
    /\ UNCHANGED <<now, calls, faults, remote, db, req>>
    /\ dirs' = dirs \cup {loc[p].case_id}
    /\ files' = Put(files, loc[p].path, loc[p].case_data)
    /\ LET l == [loc[p] EXCEPT !.written = loc[p].written + 1]
       IN  LocalEnter(p, l, LocalNextStage("case", l.i, Len(req[p].documents)))

\* one turn of the loop over the documents: decode, then write the file
LocalWriteDoc(p) ==
    /\ pc[p] = "l_doc"
    /\ UNCHANGED <<now, calls, faults, remote, dirs, db, req>>
    /\ LET doc == req[p].documents[loc[p].i + 1]
           l == [loc[p] EXCEPT !.i = loc[p].i + 1, !.attempted = loc[p].attempted + 1]
       IN  IF B64Valid(doc.b64)
           THEN /\ files' = Put(files, LocalDocPath(l.case_id, doc.doc_type), B64Decode(doc.b64))
                /\ LocalEnter(p, [l EXCEPT !.written = l.written + 1],
                              LocalNextStage("docs", l.i, Len(req[p].documents)))
           ELSE /\ UNCHANGED files
                /\ Return(p, l, LocalFailure(l.case_id, "binascii.Error"))

\* update_case_database: read data/cases.json
LocalDbRead(p) ==
    /\ pc[p] = "l_db_read"
    /\ UNCHANGED <<now, calls, faults, remote, files, dirs, db, req, resp, last>>
    /\ loc' = [loc EXCEPT ![p].cases = DatabaseUpsert(LoadCases, loc[p].case_data)]
    /\ pc' = [pc EXCEPT ![p] = "l_db_write"]

\* update_case_database: write data/cases.json
LocalDbWrite(p) ==
    /\ pc[p] = "l_db_write"
    /\ UNCHANGED <<now, calls, faults, remote, files, dirs, req>>
    /\ db' = <<loc[p].cases>>
    /\ LocalEnter(p, [loc[p] EXCEPT !.indexed = TRUE],
                  LocalNextStage("index", loc[p].i, Len(req[p].documents)))

\* a failing submit_case that removes the case record it wrote
LocalFault_Cleanup(p) ==
    /\ pc[p] \in {"l_case", "l_doc", "l_db_read", "l_db_write"}
    /\ UNCHANGED <<now, calls, remote, dirs, db, req>>
    /\ MayFail
    /\ faults' = faults + 1
    /\ files' = [f \in DOMAIN files \ {CaseDataPath(loc[p].case_id)} |-> files[f]]
    /\ Return(p, loc[p], LocalFailure(loc[p].case_id, "OSError"))

\* a disk operation of submit_case fails (OSError)
LocalFault(p) ==
    /\ pc[p] \in {"l_case", "l_doc", "l_db_read", "l_db_write"}
    /\ UNCHANGED <<now, calls, remote, files, dirs, db, req>>
    /\ MayFail
    /\ faults' = faults + 1
    /\ Return(p, loc[p], LocalFailure(loc[p].case_id, "OSError"))

-----------------------------------------------------------------------------
(* Case lifecycle: update_case_status and assign_case_number of main.py,      *)
(* update_case and reassign_case_number of dashboard_api.py                 *)


EntryIds(entries) == {entries[k].case_id : k \in 1..Len(entries)}

\* the case_ids a clerk may name: those listed, and one that does not exist
KnownIds == EntryIds(LoadCases) \cup {"HOU-0000-0"}

StatusRequest(status, notes) == [op |-> "update_status", status |-> status, notes |-> notes]

\* update-status requests: the five statuses, and a value outside them
StatusRequests ==
    { StatusRequest("processing", None),
      StatusRequest("approved", "ok"),
      StatusRequest("rejected", None),
      StatusRequest("filed", None),
      StatusRequest("submitted", None),
      StatusRequest("archived", None) }

NumberRequest(case_number, filing_date) ==
    [op |-> "assign_number", case_number |-> case_number, filing_date |-> filing_date]

NumberRequests ==
    { NumberRequest("CV-1", None),
      NumberRequest("", "2024-02-01") }

\* CaseUpdate: every field optional
CaseUpdate(status, number, filing_date, notes, reason) ==
    [op |-> "update", status |-> status, official_case_number |-> number,
     filing_date |-> filing_date, clerk_notes |-> notes, rejection_reason |-> reason]

CaseUpdates ==
    { CaseUpdate("processing", None, None, None, None),
      CaseUpdate("rejected", None, None, "see file", None),
      CaseUpdate("rejected", None, None, None, "no lease"),
      CaseUpdate("filed", "CV-2", "2024-02-01", None, None),
      CaseUpdate("filed", None, None, None, None) }

ReassignRequest(number) == [op |-> "reassign", official_case_number |-> number]

ReassignRequests == { ReassignRequest("CV-3") }

\* verify_token returns {"username": "admin"}
Username == "admin"

\* update_case_status: the keys set on the database entry and on the record
ApplyStatus(c, r, t) ==
    [c EXCEPT !.status = r.status,
              !.updated_at = IsoFormat(t),
              !.admin_notes = IF Truthy(r.notes) THEN r.notes ELSE @]

\* assign_case_number: the keys set on the database entry and on the record
ApplyNumber(c, r, t) ==
    [c EXCEPT !.official_case_number = r.case_number,
              !.status = "filed",
              !.filing_date = IF Truthy(r.filing_date) THEN r.filing_date ELSE Today(t),
              !.assigned_at = IsoFormat(t)]

\* update_case: the keys set on the database entry
ApplyUpdate(c, r, t) ==
    [c EXCEPT !.status = IF Truthy(r.status) THEN r.status ELSE @,
              !.assigned_by = IF Truthy(r.status) THEN Username ELSE @,
              !.assigned_at = IF Truthy(r.status) THEN IsoFormat(t) ELSE @,
              !.official_case_number =
                    IF Truthy(r.official_case_number) THEN r.official_case_number ELSE @,
              !.filing_date = IF Truthy(r.filing_date) THEN r.filing_date ELSE @,
              !.clerk_notes = IF Truthy(r.clerk_notes) THEN r.clerk_notes ELSE @,
              !.rejection_reason = IF Truthy(r.rejection_reason) THEN r.rejection_reason ELSE @]

\* reassign_case_number: the keys set on the database entry
ApplyReassign(c, r, t) ==
    [c EXCEPT !.official_case_number = r.official_case_number,
              !.status = "filed",
              !.assigned_by = Username,
              !.assigned_at = IsoFormat(t),
              !.filing_date = Today(t)]

\* the change the handler of request r makes to a case
Apply(c, r, t) ==
    CASE r.op = "update_status" -> ApplyStatus(c, r, t)
      [] r.op = "assign_number" -> ApplyNumber(c, r, t)
      [] r.op = "update" -> ApplyUpdate(c, r, t)
      [] r.op = "reassign" -> ApplyReassign(c, r, t)

LifecycleSuccess(case_id) == Response(200, TRUE, case_id, NoInt, None)

\* HTTPException(status_code=404)
NotFound(detail) == Response(404, FALSE, None, NoInt, detail)

\* an exception no handler catches: 500 Internal Server Error
ServerError == Response(500, FALSE, None, NoInt, "Internal Server Error")

\* handlers that change the database entry only
MainAfterLoad_DbOnly(case_id) == "m_db_write"

\* the handlers of main.py write the record of the case when its directory exists
MainAfterLoad(case_id) == IF case_id \in dirs THEN "m_rec_read" ELSE "m_db_write"

\* the start of a lifecycle handler: the database is loaded, the case looked
\* up, its entry changed in the loaded list
LifecycleLoad(p, r, case_id, t, after) ==
    /\ req' = [req EXCEPT ![p] = [kind |-> "local", case_id |-> case_id] @@ r]
    /\ calls' = calls + 1
    /\ Now(t)
    /\ LET cases == LoadCases
           k == IndexOfCase(cases, case_id)
           l == [NoLoc EXCEPT !.case_id = case_id, !.stage = "load", !.i = t]
       IN  CASE r.op \in {"update_status", "assign_number"} /\ db = <<>> ->
                    /\ Begin(p, l) /\ pc' = pc /\ resp' = [resp EXCEPT ![p] = NotFound("Case database not found")]
                    /\ last' = NoLast
             [] ~(r.op \in {"update_status", "assign_number"} /\ db = <<>>) /\ k = 0 ->
                    /\ Begin(p, l) /\ pc' = pc /\ resp' = [resp EXCEPT ![p] = NotFound("Case not found")]
                    /\ last' = NoLast
             [] OTHER ->
                    /\ Begin(p, [l EXCEPT !.cases = [cases EXCEPT ![k] = Apply(cases[k], r, t)]])
                    /\ pc' = [pc EXCEPT ![p] = after]
                    /\ UNCHANGED <<resp, last>>

\* POST /api/dashboard/cases/{case_id}/update-status
UpdateStatusStart(p) ==
    /\ FirstIdle(p)
    /\ Serves("local")
    /\ calls < MaxCalls
    /\ UNCHANGED <<faults, remote, files, dirs, db>>
    /\ \E r \in StatusRequests, case_id \in KnownIds, t \in Instants :
        LifecycleLoad(p, r, case_id, t, MainAfterLoad(case_id))

\* POST /api/dashboard/cases/{case_id}/assign-number
AssignNumberStart(p) ==
    /\ FirstIdle(p)
    /\ Serves("local")
    /\ calls < MaxCalls
    /\ UNCHANGED <<faults, remote, files, dirs, db>>
    /\ \E r \in NumberRequests, case_id \in KnownIds, t \in Instants :
        LifecycleLoad(p, r, case_id, t, MainAfterLoad(case_id))

\* main.py: json.load of the case's case_data.json, and the same change
MainRecordRead(p) ==
    /\ pc[p] = "m_rec_read"
    /\ UNCHANGED <<now, calls, faults, remote, files, dirs, db, req, resp, last>>
    /\ loc' = [loc EXCEPT ![p].stage = "record",
                          ![p].path = CaseDataPath(loc[p].case_id),
                          ![p].case_data = Apply(files[CaseDataPath(loc[p].case_id)], req[p], loc[p].i)]
    /\ pc' = [pc EXCEPT ![p] = "m_rec_write"]

\* main.py: json.dump to the case's case_data.json
MainRecordWrite(p) ==
    /\ pc[p] = "m_rec_write"
    /\ UNCHANGED <<now, calls, faults, remote, dirs, db, req, resp, last>>
    /\ files' = Put(files, loc[p].path, loc[p].case_data)
    /\ loc' = [loc EXCEPT ![p].written = loc[p].written + 1]
    /\ pc' = [pc EXCEPT ![p] = "m_db_write"]

\* main.py: json.dump of the changed list to data/cases.json, and the response
MainDbWrite(p) ==
    /\ pc[p] = "m_db_write"
    /\ UNCHANGED <<now, calls, faults, remote, files, dirs, req>>
    /\ db' = <<loc[p].cases>>
    /\ Return(p, [loc[p] EXCEPT !.stage = "return"], LifecycleSuccess(loc[p].case_id))

\* POST /api/dashboard/cases/{case_id}/update
UpdateCaseStart(p) ==
    /\ FirstIdle(p)
    /\ Serves("local")
    /\ calls < MaxCalls
    /\ UNCHANGED <<faults, remote, files, dirs, db>>
    /\ \E r \in CaseUpdates, case_id \in KnownIds, t \in Instants :
        LifecycleLoad(p, r, case_id, t, "d_save")

\* POST /api/dashboard/cases/{case_id}/reassign
ReassignStart(p) ==
    /\ FirstIdle(p)
    /\ Serves("local")
    /\ calls < MaxCalls
    /\ UNCHANGED <<faults, remote, files, dirs, db>>
    /\ \E r \in ReassignRequests, case_id \in KnownIds, t \in Instants :
        LifecycleLoad(p, r, case_id, t, "d_save")

\* dashboard_api.py: save_cases(cases), and the response
DashSave(p) ==
    /\ pc[p] = "d_save"
    /\ UNCHANGED <<now, calls, faults, remote, files, dirs, req>>
    /\ db' = <<loc[p].cases>>
    /\ Return(p, [loc[p] EXCEPT !.stage = "return"], LifecycleSuccess(loc[p].case_id))

\* a disk operation of a lifecycle handler fails (OSError)
LifecycleFault(p) ==
    /\ pc[p] \in {"m_rec_read", "m_rec_write", "m_db_write", "d_save"}
    /\ UNCHANGED <<now, calls, remote, files, dirs, db, req>>
    /\ MayFail
    /\ faults' = faults + 1
    /\ Return(p, loc[p], ServerError)

-----------------------------------------------------------------------------

Init ==
    /\ now = 0
    /\ calls = 0
    /\ faults = 0
    /\ remote = <<>>
    /\ files = <<>>
    /\ dirs = {}
    /\ db = <<>>
    /\ pc = [p \in Procs |-> "idle"]
    /\ req = [p \in Procs |-> NoReq]
    /\ loc = [p \in Procs |-> NoLoc]
    /\ resp = [p \in Procs |-> NoResp]
    /\ last = NoLast

NextRemote ==
    \/ \E p \in Procs : RemoteStart(p)
    \/ \E p \in Procs : RemoteGet(p)
    \/ \E p \in Procs : RemotePut(p)
    \/ \E p \in Procs : RemoteFault(p)
    \/ \E p \in Procs : RemoteIndexGet(p)
    \/ \E p \in Procs : RemoteIndexPut(p)

SpecRemote == Init /\ [][NextRemote]_vars

NextLocalSubmit ==
    \/ \E p \in Procs : LocalStart(p)
    \/ \E p \in Procs : LocalWriteCase(p)
    \/ \E p \in Procs : LocalWriteDoc(p)
    \/ \E p \in Procs : LocalDbRead(p)
    \/ \E p \in Procs : LocalDbWrite(p)
    \/ \E p \in Procs : LocalFault(p)

Next ==
    \/ NextRemote
    \/ NextLocalSubmit

Spec == Init /\ [][Next]_vars

\* the case store some time after two local submissions: the files are on
\* disk, the handler threads are fresh
StoredA == PrepareCaseData(LocalRequest(LocalA, None, <<>>), LocalAllocate(0, "0f8e2a6c"), 0)
StoredT == PrepareCaseData(LocalRequest(LocalT, "sig", <<>>), LocalAllocate(0, "b3d9c1e7"), 0)

InitLifecycle ==
    /\ now = 0
    /\ calls = 0
    /\ faults = 0
    /\ remote = <<>>
    /\ files = Put(Put(Put(Put(<<>>,
                CaseDataPath(StoredA.case_id), StoredA),
                LocalDocPath(StoredA.case_id, "demand_notice"), "A"),
                CaseDataPath(StoredT.case_id), StoredT),
                LocalDocPath(StoredT.case_id, "demand_notice"), "A")
    /\ dirs = {StoredA.case_id, StoredT.case_id}
    /\ db = << <<StoredA, StoredT>> >>
    /\ pc = [p \in Procs |-> "idle"]
    /\ req = [p \in Procs |-> NoReq]
    /\ loc = [p \in Procs |-> NoLoc]
    /\ resp = [p \in Procs |-> NoResp]
    /\ last = NoLast

NextLifecycle ==
    \/ \E p \in Procs : UpdateStatusStart(p)
    \/ \E p \in Procs : AssignNumberStart(p)
    \/ \E p \in Procs : MainRecordRead(p)
    \/ \E p \in Procs : MainRecordWrite(p)
    \/ \E p \in Procs : MainDbWrite(p)
    \/ \E p \in Procs : UpdateCaseStart(p)
    \/ \E p \in Procs : ReassignStart(p)
    \/ \E p \in Procs : DashSave(p)
    \/ \E p \in Procs : LifecycleFault(p)

SpecLifecycle == InitLifecycle /\ [][NextLifecycle]_vars

\* the clerk's routine: a case is claimed (update-status to processing),
\* rejected with a reason (update), given its number (assign-number)
ClaimStart(p) ==
    /\ FirstIdle(p)
    /\ Serves("local")
    /\ calls < MaxCalls
    /\ UNCHANGED <<faults, remote, files, dirs, db>>
    /\ \E case_id \in KnownIds, t \in Instants :
        LifecycleLoad(p, StatusRequest("processing", None), case_id, t, MainAfterLoad(case_id))

RejectStart(p) ==
    /\ FirstIdle(p)
    /\ Serves("local")
    /\ calls < MaxCalls
    /\ UNCHANGED <<faults, remote, files, dirs, db>>
    /\ \E case_id \in KnownIds, t \in Instants :
        LifecycleLoad(p, CaseUpdate("rejected", None, None, None, "no lease"), case_id, t, "d_save")

NextClerk ==
    \/ \E p \in Procs : ClaimStart(p)
    \/ \E p \in Procs : AssignNumberStart(p)
    \/ \E p \in Procs : MainRecordRead(p)
    \/ \E p \in Procs : MainRecordWrite(p)
    \/ \E p \in Procs : MainDbWrite(p)
    \/ \E p \in Procs : RejectStart(p)
    \/ \E p \in Procs : DashSave(p)
    \/ \E p \in Procs : LifecycleFault(p)

SpecClerk == InitLifecycle /\ [][NextClerk]_vars

\* POST /api/submit-to-github with two documents: one submission whose keys
\* are a type of the filename table and the name the table gives it, one
\* whose keys are a type of the table and a type outside it
RemoteBundleStart(p) ==
    /\ FirstIdle(p)
    /\ Serves("remote")
    /\ calls < MaxCalls
    /\ UNCHANGED <<faults, remote, files, dirs, db, resp, last>>
    /\ \E r \in { RemoteRequest("X1", CaseA, << Doc("demand_notice", "QQ=="),
                                                Doc("7-Day_Demand_Notice", "Qg==") >>),
                  RemoteRequest("", CaseB, << Doc("affidavit", "QQ=="),
                                              Doc("lease", "Qg==") >>) },
          t \in Instants :
        /\ Now(t)
        /\ req' = [req EXCEPT ![p] = [kind |-> "remote"] @@ r]
        /\ Begin(p, [NoLoc EXCEPT !.case_id = RemoteResolveCaseId(r, t),
                                  !.stage = "case",
                                  !.path = CaseDataPath(RemoteResolveCaseId(r, t)),
                                  !.case_data = r.case_data])
    /\ calls' = calls + 1
    /\ pc' = [pc EXCEPT ![p] = "r_get"]

NextBundle ==
    \/ \E p \in Procs : RemoteBundleStart(p)
    \/ \E p \in Procs : RemoteGet(p)
    \/ \E p \in Procs : RemotePut(p)
    \/ \E p \in Procs : RemoteFault(p)
    \/ \E p \in Procs : RemoteIndexGet(p)
    \/ \E p \in Procs : RemoteIndexPut(p)

SpecBundle == Init /\ [][NextBundle]_vars

\* the handlers of main.py alone: submit, update-status, assign-number
NextMain ==
    \/ NextLocalSubmit
    \/ \E p \in Procs : UpdateStatusStart(p)
    \/ \E p \in Procs : AssignNumberStart(p)
    \/ \E p \in Procs : MainRecordRead(p)
    \/ \E p \in Procs : MainRecordWrite(p)
    \/ \E p \in Procs : MainDbWrite(p)
    \/ \E p \in Procs : LifecycleFault(p)

SpecMain == Init /\ [][NextMain]_vars

\* the case service over a stored database: submissions (main.py) and lifecycle
\* calls (main.py, dashboard_api.py) on the same data/cases.json
NextStore ==
    \/ NextLocalSubmit
    \/ NextLifecycle

SpecStore == InitLifecycle /\ [][NextStore]_vars

-----------------------------------------------------------------------------
(* Reports: get_monthly_report of dashboard_api.py *)

\* submitted_date.strftime("%Y-%m"); the clock of the model stays in January
MonthKey(submitted_at) == YearStr \o "-01"

\* the counters of a month when its first case is met
NoStats == [total |-> 0, filed |-> 0, rejected |-> 0, pending |-> 0, total_amount |-> 0]

\* case['amount_owed'] raises KeyError for a case without the key
ReportFails(cases) == \E k \in 1..Len(cases) : cases[k].amount_owed = NoInt

\* monthly_stats after the loop over the cases
RECURSIVE MonthlyStats(_)
MonthlyStats(cases) ==
    IF cases = <<>>
    THEN <<>>
    ELSE LET prev == MonthlyStats(SubSeq(cases, 1, Len(cases) - 1))
             case == cases[Len(cases)]
             month_key == MonthKey(case.submitted_at)
             stats == IF month_key \in DOMAIN prev THEN prev[month_key] ELSE NoStats
         IN  (month_key :>
                [stats EXCEPT !.total = @ + 1,
                              !.total_amount = @ + case.amount_owed,
                              !.filed = IF case.status = "filed" THEN @ + 1 ELSE @,
                              !.rejected = IF case.status = "rejected" THEN @ + 1 ELSE @,
                              !.pending = IF case.status \in {"submitted", "processing", "approved"}
                                          THEN @ + 1 ELSE @]) @@ prev

\* the report: one entry per month (the order of the months is that of sorted)
RECURSIVE MonthlyReportList(_)
MonthlyReportList(monthly_stats) ==
    IF DOMAIN monthly_stats = {}
    THEN <<>>
    ELSE LET month == CHOOSE m \in DOMAIN monthly_stats : TRUE
             rest == [m \in DOMAIN monthly_stats \ {month} |-> monthly_stats[m]]
         IN  <<[month |-> month] @@ monthly_stats[month]>> \o MonthlyReportList(rest)

\* GET /api/dashboard/reports/monthly: the database is loaded and the report
\* returned (kept in index_data of the call's record), or the loop raises
MonthlyReport(p) ==
    /\ FirstIdle(p)
    /\ Serves("local")
    /\ calls < MaxCalls
    /\ UNCHANGED <<now, faults, remote, files, dirs, db, pc>>
    /\ calls' = calls + 1
    /\ req' = [req EXCEPT ![p] = [kind |-> "local", op |-> "monthly_report"]]
    /\ IF ReportFails(LoadCases)
       THEN /\ Begin(p, [NoLoc EXCEPT !.stage = "report"])
            /\ resp' = [resp EXCEPT ![p] = ServerError]
            /\ last' = NoLast
       ELSE /\ Begin(p, [NoLoc EXCEPT !.stage = "report",
                                      !.index_data = MonthlyReportList(MonthlyStats(LoadCases))])
            /\ resp' = [resp EXCEPT ![p] = Response(200, TRUE, None, NoInt, None)]
            /\ last' = [req |-> req'[p], remote |-> remote, files |-> files, db |-> db]

NextReport ==
    \/ NextLocalSubmit
    \/ \E p \in Procs : MonthlyReport(p)

SpecReport == Init /\ [][NextReport]_vars

-----------------------------------------------------------------------------
(* Document generation: scripts/generate_docs.py *)

\* lease_type as the case data carries it; None when the key is missing
LEASE_TYPES == {"month-to-month", "Month-to-Month", "fixed-term", None}

\* the case data the script loads (--data-file or CASE_DATA)
GeneratorCase(lease_type) == [tenant_name |-> "B", lease_type |-> lease_type]

\* the documents main() generates, in its order
GENERATED == <<"eviction_notice", "affidavit", "dispossessory_warrant">>

\* self.output_dir
OutputDir(case_id) == "documents/" \o case_id

\* a comparison of lease_type that ignores case
NoticePeriod_AnyCase(case_data) ==
    IF case_data.lease_type \in {"month-to-month", "Month-to-Month"} THEN "7 days" ELSE "30 days"

\* notice_period of generate_eviction_notice
NoticePeriod(case_data) ==
    IF case_data.lease_type = "month-to-month" THEN "7 days" ELSE "30 days"

\* datetime.now().strftime("%B %d, %Y")
StrfDate(t) == "January 01, " \o YearStr

\* the arguments of template.render; the rendered PDF is taken to be the
\* template with its context (the constant court and notary entries left out)
RenderContext(doc, case_id, case_data, t) ==
    CASE doc = "eviction_notice" ->
            [template |-> "eviction_notice.html", case |-> case_data,
             generated_date |-> StrfDate(t), notice_period |-> NoticePeriod(case_data)]
      [] doc = "affidavit" ->
            [template |-> "affidavit.html", case |-> case_data, today |-> StrfDate(t)]
      [] doc = "dispossessory_warrant" ->
            [template |-> "dispossessory_warrant.html", case |-> case_data,
             case_number |-> "HOU-MC-" \o YearStr \o "-" \o case_id]

\* main(): the arguments are parsed, the case data loaded, the generator
\* constructed (output_dir.mkdir)
GenerateStart(p) ==
    /\ FirstIdle(p)
    /\ Serves("generate")
    /\ calls < MaxCalls
    /\ UNCHANGED <<now, faults, remote, files, db, resp, last>>
    /\ \E case_id \in {"HOU-2024-0", "X1"}, lease_type \in LEASE_TYPES :
        /\ req' = [req EXCEPT ![p] = [kind |-> "generate", op |-> "generate", case_id |-> case_id,
                                      case_data |-> GeneratorCase(lease_type)]]
        /\ dirs' = dirs \cup {OutputDir(case_id)}
        /\ Begin(p, [NoLoc EXCEPT !.case_id = case_id, !.stage = "generate"])
    /\ calls' = calls + 1
    /\ pc' = [pc EXCEPT ![p] = "g_render"]

\* generate_eviction_notice, generate_affidavit, generate_dispossessory_warrant:
\* the template is rendered and the PDF written
GenerateDocument(p) ==
    /\ pc[p] = "g_render"
    /\ UNCHANGED <<calls, faults, remote, dirs, db, req>>
    /\ \E t \in Instants :
        /\ Now(t)
        /\ LET doc == GENERATED[loc[p].i + 1]
               l == [loc[p] EXCEPT !.i = loc[p].i + 1, !.written = loc[p].written + 1]
           IN  /\ files' = Put(files, OutputDir(l.case_id) \o "/" \o doc \o ".pdf",
                               RenderContext(doc, l.case_id, req[p].case_data, t))
               /\ IF l.i = Len(GENERATED)
                  THEN Return(p, l, Response(0, TRUE, l.case_id, l.written, None))
                  ELSE /\ loc' = [loc EXCEPT ![p] = l]
                       /\ UNCHANGED <<pc, resp, last>>

\* get_template or pdfkit.from_string raises: the script ends there
GenerateFault(p) ==
    /\ pc[p] = "g_render"
    /\ UNCHANGED <<now, calls, remote, files, dirs, db, req>>
    /\ MayFail
    /\ faults' = faults + 1
    /\ Return(p, loc[p], Response(1, FALSE, None, NoInt, "OSError"))

NextGenerate ==
    \/ \E p \in Procs : GenerateStart(p)
    \/ \E p \in Procs : GenerateDocument(p)
    \/ \E p \in Procs : GenerateFault(p)

SpecGenerate == Init /\ [][NextGenerate]_vars

-----------------------------------------------------------------------------
(* Observations used by the properties *)

\* the entries of the remote index, cases/index.json
RemoteIndex == IF Exists(remote, INDEX_PATH) THEN remote[INDEX_PATH] ELSE <<>>

\* the index a submit of this kind maintains
IndexFor(kind) == IF kind = "remote" THEN RemoteIndex ELSE LoadCases

NoDuplicateIds(entries) ==
    \A i, j \in 1..Len(entries) : i # j => entries[i].case_id # entries[j].case_id

\* the last call of p has returned
Returned(p) == pc[p] = "idle" /\ req[p].kind # "none"

\* p returns in this step
Returns(p) == pc[p] # "idle" /\ pc'[p] = "idle"

\* the case_id the caller put into the request, "" when it put none
SuppliedCaseId(r) ==
    IF r.kind = "remote"
    THEN r.case_id
    ELSE IF r.case_data.case_id = None THEN "" ELSE r.case_data.case_id

AllDocsValid(r) == \A k \in 1..Len(r.documents) : B64Valid(r.documents[k].b64)

-----------------------------------------------------------------------------
(* Properties *)

\* C1: after any sequence of submits the index holds at most one entry per
\* case_id, in the remote index and in the local case database.
C1_IndexOneEntryPerCaseId ==
    /\ NoDuplicateIds(RemoteIndex)
    /\ NoDuplicateIds(LoadCases)

\* C2: a submit that repeats, alone, the submission the last successful call
\* made under the same supplied case_id leaves the storage as that call left it.
C2_SubmitIdempotent ==
    [][\A p \in Procs :
        ( /\ Returns(p)
          /\ resp'[p].success
          /\ loc[p].solo
          /\ SuppliedCaseId(req[p]) # ""
          /\ last.req = req[p] )
        => ( /\ remote' = last.remote
             /\ files' = last.files
             /\ db' = last.db )]_vars

\* C3: two submits of different cases, with no storage fault and only
\* decodable documents, both return success, with distinct case_ids, and the
\* index holds an entry for each once both have returned.
C3_ConcurrentSubmitsBothIndexed ==
    \A p, q \in Procs :
        ( /\ p # q
          /\ Returned(p) /\ Returned(q)
          /\ req[p].case_data # req[q].case_data
          /\ SuppliedCaseId(req[p]) = "" \/ SuppliedCaseId(req[p]) # SuppliedCaseId(req[q])
          /\ faults = 0
          /\ AllDocsValid(req[p]) /\ AllDocsValid(req[q]) )
        => ( /\ resp[p].success /\ resp[q].success
             /\ resp[p].case_id # resp[q].case_id
             /\ {loc[p].case_id, loc[q].case_id} \subseteq EntryIds(IndexFor(req[p].kind)) )

\* C4: a submit whose conditional write of the index is rejected for a stale
\* token reads the index again instead of failing.
C4_StaleIndexWriteRetried ==
    [][\A p \in Procs :
        ( /\ pc[p] = "r_idx_put"
          /\ ~PutAccepted(remote, INDEX_PATH, loc[p].sha)
          /\ pc'[p] # "r_idx_put"
          /\ faults' = faults )
        => pc'[p] = "r_idx_get"]_vars

\* C5: every case of the case database, and every case record on disk, whose
\* status is filed has a non-empty official_case_number.
C5_FiledHasCaseNumber ==
    /\ \A k \in 1..Len(LoadCases) :
            LoadCases[k].status = "filed" => Truthy(LoadCases[k].official_case_number)
    /\ \A id \in dirs :
            files[CaseDataPath(id)].status = "filed"
                => Truthy(files[CaseDataPath(id)].official_case_number)

\* C6: a submit whose caller supplies a case_id works under exactly that id.
C6_SuppliedCaseIdHonored ==
    \A p \in Procs :
        (req[p].kind # "none" /\ SuppliedCaseId(req[p]) # "")
        => loc[p].case_id = SuppliedCaseId(req[p])

\* C7: two submits of different cases that supply no case_id work under
\* different case_ids.
C7_AllocatedCaseIdsDistinct ==
    \A p, q \in Procs :
        ( /\ p # q
          /\ req[p].kind # "none" /\ req[q].kind # "none"
          /\ SuppliedCaseId(req[p]) = "" /\ SuppliedCaseId(req[q]) = ""
          /\ req[p].case_data # req[q].case_data )
        => loc[p].case_id # loc[q].case_id

\* C8: a submit that got as far as its documents attempts every one of them
\* and goes on to the index upsert, whatever happens to one document.
C8_DocumentFailureDoesNotAbort ==
    \A p \in Procs :
        (Returned(p) /\ loc[p].stage # "case")
        => ( /\ loc[p].attempted = Len(req[p].documents)
             /\ loc[p].stage \in {"index", "return"} )

\* C9: every response of submit carries the case_id resolved for the call.
C9_ResponseCarriesCaseId ==
    \A p \in Procs : Returned(p) => resp[p].case_id = loc[p].case_id

\* C10: a call that has written its entry to the index has attempted the
\* write of every document of its submission before.
C10_IndexAfterDocuments ==
    \A p \in Procs :
        loc[p].indexed => loc[p].attempted = Len(req[p].documents)

\* a remote call with a document has written its entry to the index
C10_Witness ==
    \E p \in Procs :
        /\ loc[p].indexed
        /\ req[p].kind = "remote"
        /\ Len(req[p].documents) > 0
        /\ loc[p].case_id \in EntryIds(RemoteIndex)

STATUSES == {"submitted", "processing", "approved", "rejected", "filed"}

\* the case records on disk: case_data.json of every case directory
Records == {files[CaseDataPath(id)] : id \in {d \in dirs : Exists(files, CaseDataPath(d))}}

\* the entries of a list, as a set
Entries(cases) == {cases[k] : k \in 1..Len(cases)}

\* C12: the status of every stored case (database entry, case record, index
\* entry) is one of submitted, processing, approved, rejected, filed.
C12_StatusInEnum ==
    /\ \A c \in Entries(LoadCases) : c.status \in STATUSES
    /\ \A c \in Records : c.status \in STATUSES
    /\ \A c \in Entries(RemoteIndex) : c.status \in STATUSES

\* the case record of case_id in the store a submit of this kind writes
RecordOf(kind, case_id) ==
    IF kind = "remote" THEN remote[CaseDataPath(case_id)] ELSE files[CaseDataPath(case_id)]

\* the index entries of case_id
EntriesOf(kind, case_id) == {c \in Entries(IndexFor(kind)) : c.case_id = case_id}

\* p returns from a successful submit in this step
SubmitSucceeds(p) == Returns(p) /\ req[p].op = "submit" /\ resp'[p].success

\* C13: when a submit returns successfully, the case record it stored and the
\* index entry of its case both have status "submitted", whatever status the
\* client sent.
C13_SubmittedAfterSubmit ==
    [][\A p \in Procs :
            SubmitSucceeds(p) =>
                /\ RecordOf(req[p].kind, loc[p].case_id)'.status = "submitted"
                /\ \A c \in EntriesOf(req[p].kind, loc[p].case_id)' : c.status = "submitted"]_vars

\* C14: every change of a stored case's status is a step of the state machine:
\* submitted to processing, processing to approved or rejected, approved to
\* filed, or the assign-number shortcut to filed with its official case number;
\* no step goes back to an earlier state.
C14_StatusFollowsStateMachine ==
    [][LET Transitions == { <<"submitted", "processing">>, <<"processing", "approved">>,
                            <<"processing", "rejected">>, <<"approved", "filed">> }
       IN  \A c \in Entries(LoadCases) : \A d \in Entries(LoadCases)' :
                (c.case_id = d.case_id /\ c.status # d.status) =>
                    \/ <<c.status, d.status>> \in Transitions
                    \/ /\ d.status = "filed"
                       /\ Truthy(d.official_case_number)
                       /\ \E p \in Procs : Returns(p) /\ req[p].op \in {"assign_number", "reassign"}]_vars

\* C15: a stored case with status "rejected" has a rejection_reason, in its
\* database entry and in its case record.
C15_RejectedHasReason ==
    \A c \in Entries(LoadCases) \cup Records :
        c.status = "rejected" => Truthy(c.rejection_reason)

\* p takes a lifecycle call in this step
LifecycleCall(p) ==
    /\ FirstIdle(p)
    /\ calls' = calls + 1
    /\ req'[p].op \in {"update_status", "assign_number", "update", "reassign"}

C17_SubmittedAtKept ==
    [][/\ \A c \in Entries(LoadCases) : \A d \in Entries(LoadCases)' :
                c.case_id = d.case_id => d.submitted_at = c.submitted_at
       /\ \A id \in dirs :
                (Exists(files, CaseDataPath(id)) /\ Exists(files', CaseDataPath(id))) =>
                    files'[CaseDataPath(id)].submitted_at = files[CaseDataPath(id)].submitted_at
       /\ \A d \in Entries(RemoteIndex)' :
                EntriesOf("remote", d.case_id) # {} =>
                    \E c \in EntriesOf("remote", d.case_id) : c.submitted = d.submitted]_vars

\* C18: when a submit returns successfully, the case record it stored and the
\* database entry of its case have no official_case_number, filing_date,
\* clerk_notes, rejection_reason, assigned_by or assigned_at, whatever the
\* client sent.
C18_LifecycleFieldsUnsetAfterSubmit ==
    [][\A p \in Procs :
            (SubmitSucceeds(p) /\ req[p].kind = "local") =>
                \A c \in {RecordOf("local", loc[p].case_id)'} \cup EntriesOf("local", loc[p].case_id)' :
                    \A f \in {"official_case_number", "filing_date", "clerk_notes",
                              "rejection_reason", "assigned_by", "assigned_at"} :
                        ~Truthy(c[f])]_vars

\* C19: a stored case is never removed: no step takes a case_id out of the
\* case database or the index, or takes away a case directory or its record.
C19_CaseNeverRemoved ==
    [][/\ EntryIds(LoadCases) \subseteq EntryIds(LoadCases)'
       /\ EntryIds(RemoteIndex) \subseteq EntryIds(RemoteIndex)'
       /\ dirs \subseteq dirs'
       /\ \A id \in dirs : Exists(files, CaseDataPath(id)) => Exists(files', CaseDataPath(id))]_vars

\* the store a submit of this kind writes
StoreOf(kind) == IF kind = "remote" THEN remote ELSE files

\* C20: after a successful submit, every document of type d it carried is in
\* the store at cases/<case_id>/<filename(d)>, filename(d) taken from the fixed
\* table or <d>.pdf for a type outside it, on the local path as on the remote.
C20_DocumentAtTableFilename ==
    \A p \in Procs :
        (Returned(p) /\ req[p].op = "submit" /\ resp[p].success) =>
            \A k \in 1..Len(req[p].documents) :
                Exists(StoreOf(req[p].kind),
                       CaseDir(loc[p].case_id) \o "/" \o get_doc_filename(req[p].documents[k].doc_type))

\* the demand notices generated so far
GeneratedNotices ==
    {files[f] : f \in {OutputDir(id) \o "/eviction_notice.pdf" : id \in {"HOU-2024-0", "X1"}}
                        \cap DOMAIN files}

\* C21: the notice period in the render context of the demand notice is
\* "7 days" when the case's lease_type is "month-to-month" and "30 days" for
\* every other lease_type, a missing one included.
C21_NoticePeriodRule ==
    \A n \in GeneratedNotices :
        /\ n.case.lease_type = "month-to-month" => n.notice_period = "7 days"
        /\ n.case.lease_type # "month-to-month" => n.notice_period = "30 days"

\* a notice of each kind has been generated: month-to-month, and a lease_type
\* that differs from it only in case
C21_Witness ==
    /\ \E n \in GeneratedNotices : n.case.lease_type = "month-to-month"
    /\ \E n \in GeneratedNotices : n.case.lease_type = "Month-to-Month"

\* the sum of a counter over the entries of a report
RECURSIVE SumOf(_, _)
SumOf(report, key) ==
    IF report = <<>> THEN 0 ELSE report[1][key] + SumOf(Tail(report), key)

\* C22: whatever the case database holds, the monthly report is produced and
\* reconciles with the case list: its 'total' counts add up to the number of
\* cases, its 'filed' counts to the number of cases with status "filed".
C22_MonthlyReportReconciles ==
    [][\A p \in Procs :
            (FirstIdle(p) /\ calls' = calls + 1 /\ req'[p].op = "monthly_report") =>
                /\ resp'[p].code = 200
                /\ SumOf(loc'[p].index_data, "total") = Len(LoadCases)
                /\ SumOf(loc'[p].index_data, "filed")
                        = Cardinality({k \in 1..Len(LoadCases) : LoadCases[k].status = "filed"})]_vars

\* C23: a submission whose case data lacks a required field (here the amount
\* owed, which the reports read of every case) is rejected with a validation
\* error before any write: it writes no file and no database entry.
C23_InvalidSubmissionRejected ==
    \A p \in Procs :
        (req[p].kind = "local" /\ req[p].op = "submit" /\ req[p].case_data.amount_owed = NoInt) =>
            /\ loc[p].written = 0
            /\ ~loc[p].indexed
            /\ Returned(p) => resp[p].code = 422

\* C24: a remote PUT of a path comes after a GET of that same path in the same
\* operation, and it carries the sha that GET returned exactly when the GET
\* found the object; after a GET that found nothing it carries none.
C24_PutFollowsGetWithToken ==
    \A p \in Procs :
        pc[p] \in {"r_put", "r_idx_put"} =>
            /\ loc[p].got = loc[p].path
            /\ loc[p].found <=> loc[p].sha # NoSha
            /\ loc[p].found => DOMAIN loc[p].sha = {loc[p].path}

\* a PUT with a sha is pending for a document that an earlier, completed
\* submit stored
C24_Witness ==
    \E p \in Procs :
        /\ pc[p] = "r_put"
        /\ loc[p].stage = "docs"
        /\ loc[p].found
        /\ Exists(remote, INDEX_PATH)

\* C25: a submit that fails reports the failure (500, no success), and the
\* step in which it fails leaves every file it is not just writing, every
\* directory and the database as they were; no step of a submit takes a file
\* out of storage.
C25_NoRollbackOnFailure ==
    [][/\ \A p \in Procs :
            (Returns(p) /\ req[p].op = "submit" /\ ~resp'[p].success) =>
                /\ resp'[p].code = 500
                /\ \A f \in DOMAIN remote \ {loc[p].path} : remote'[f] = remote[f]
                /\ \A f \in DOMAIN files \ {loc[p].path} : files'[f] = files[f]
                /\ UNCHANGED <<dirs, db>>
       /\ DOMAIN remote \subseteq DOMAIN remote'
       /\ DOMAIN files \subseteq DOMAIN files']_vars

\* a submit has failed at the index upsert, after writing its case record and
\* a document, and both are in storage
C25_Witness ==
    \E p \in Procs :
        /\ Returned(p)
        /\ req[p].op = "submit"
        /\ ~resp[p].success
        /\ loc[p].stage = "index"
        /\ loc[p].written > 1
        /\ Exists(StoreOf(req[p].kind), CaseDataPath(loc[p].case_id))

\* C26: once an update that moved a case from submitted to processing has
\* returned, the case's database entry carries assigned_by and assigned_at,
\* whichever endpoint served the update.
C26_ClaimRecordsAssignee ==
    [][\A p \in Procs :
            (/\ Returns(p)
             /\ resp'[p].success
             /\ req[p].op \in {"update_status", "update"}
             /\ req[p].status = "processing"
             /\ \E c \in EntriesOf("local", req[p].case_id) : c.status = "submitted") =>
                \A c \in EntriesOf("local", req[p].case_id)' :
                    c.status = "processing" =>
                        Truthy(c.assigned_by) /\ Truthy(c.assigned_at)]_vars

Agree(disk, database) ==
    \A c \in Entries(IF database = <<>> THEN <<>> ELSE database[1]) :
        Exists(disk, CaseDataPath(c.case_id)) =>
            /\ disk[CaseDataPath(c.case_id)].status = c.status
            /\ disk[CaseDataPath(c.case_id)].official_case_number = c.official_case_number

\* C28: after any sequence of completed submit, update_case_status and
\* assign_case_number calls, the database entry and the case record
\* case_data.json of every case agree on status and official_case_number: a
\* call that runs alone and completes, started where the first call starts or
\* where a completed call left an agreeing store, leaves an agreeing store.
C28_EntryAndRecordAgree ==
    [][\A p \in Procs :
            (/\ Returns(p)
             /\ resp'[p].success
             /\ loc[p].solo
             /\ calls = 1 \/ (last # NoLast /\ Agree(last.files, last.db))) =>
                Agree(files', db')]_vars

\* a submitted case was given its number by assign_case_number, one call after
\* the other, and its record and entry both carry it
C28_Witness ==
    /\ req[2] = NoReq
    /\ Returned(1)
    /\ req[1].op = "assign_number"
    /\ resp[1].success
    /\ last # NoLast
    /\ \E c \in Entries(LoadCases) :
            /\ c.official_case_number = "CV-1"
            /\ files[CaseDataPath(c.case_id)].official_case_number = "CV-1"

\* C29: a lifecycle update of one case leaves every other case as it was: when
\* the updates of two different cases interleave, each loading the whole
\* database and saving it back, both updates are in the database once both
\* calls have completed. The two calls are taken from the two servers
\* (main.py on port 8000, dashboard_api.py on port 8001), which share
\* data/cases.json.
C29_BothUpdatesPresent ==
    (/\ calls = 2
     /\ \A p \in Procs : Returned(p) /\ resp[p].success
     /\ \E p \in Procs : req[p].op \in {"update_status", "assign_number"}
     /\ \E p \in Procs : req[p].op \in {"update", "reassign"}
     /\ req[1].case_id # req[2].case_id) =>
        \A p \in Procs :
            \E c \in Entries(LoadCases) :
                c = Apply(IF req[p].case_id = StoredA.case_id THEN StoredA ELSE StoredT,
                          req[p], loc[p].i)

\* C30: within one submission, documents with different doc_type keys are
\* written to different paths, so no document of the submission overwrites
\* another document of it or the case record: once the only call made has
\* returned success, the repository holds the case record and every document
\* of the submission.
C30_DocumentsAtDistinctPaths ==
    (calls = 1 /\ Returned(1) /\ resp[1].success) =>
        /\ remote[CaseDataPath(loc[1].case_id)] = req[1].case_data
        /\ \A i \in 1..Len(req[1].documents) :
                remote[RemoteDocPath(loc[1].case_id, req[1].documents[i].doc_type)]
                    = B64Encode(B64Decode(req[1].documents[i].b64))

\* get_dashboard_stats: the counts computed from the loaded cases
DashboardStats(cases) ==
    LET count(s) == Cardinality({k \in 1..Len(cases) : cases[k].status = s})
    IN  [total_cases |-> Len(cases),
         pending_review |-> count("submitted"),
         processing |-> count("processing"),
         approved |-> count("approved"),
         rejected |-> count("rejected"),
         court_filed |-> count("filed")]

\* C31: for every case store reached through submit and lifecycle operations
\* the dashboard statistics partition the cases: pending_review + processing +
\* approved + rejected + court_filed equals total_cases.
C31_StatsPartitionCases ==
    LET stats == DashboardStats(LoadCases)
    IN  stats.pending_review + stats.processing + stats.approved
            + stats.rejected + stats.court_filed = stats.total_cases

====
